---- MODULE Spec2Model ----
(***************************************************************************)
(* A model of the media library tools of AUTO-ORG-MIG:                     *)
(*   organize_media_by_month.py  (the Organizer: organize, safe_move, ...) *)
(*   migrate_media_to_SSD.py     (the Archive Sync: main, sync_month_folder)*)
(*                                                                         *)
(* Paths are tuples of name components relative to the library root (the   *)
(* root itself is <<>>); names are strings and are taken apart and built   *)
(* the way pathlib and the f-strings of the code do it.  A file's content  *)
(* is a record that carries what the EXIF decoder would find in its bytes, *)
(* so byte-identical files are files with equal content; file_hash is      *)
(* SHA-256, taken to be collision-free, and is modelled as the content.    *)
(***************************************************************************)
EXTENDS Integers, Sequences, FiniteSets, TLC

VARIABLES
    fs,           \* organizer: path -> [id, content, mtime], the regular files
    dirs,         \* organizer: the directories that exist
    seen_hashes,  \* organize's seen_hashes: content hash -> first path seen
    todo,         \* entries the walk has listed for the current directory and not yet yielded
    cur,          \* the directory whose entries are being yielded
    stack,        \* the walk's pending subdirectories, one set per open directory
    pc,           \* position of the running program
    run,          \* which organize run this is (1 or 2)
    lateScan,     \* the walk lists a directory's subdirectories after (TRUE) or with (FALSE) its entries
    fs0,          \* the files at the start of the current run
    dirs0,        \* the directories at the start of the current run
    nmoves,       \* safe_move calls of the current run
    prevMoves,    \* safe_move calls of the previous run
    firstIds,     \* ids of the files recorded as first-seen in this run (line 155)
    last,         \* what the last loop iteration did
    cls,          \* the file handed to the path classifier and the directory computed for it
    srcFs,          \* sync: the files under the source root, path -> bytes
    srcDirs,      \* sync: the directories under the source root
    dstFs,          \* sync: the files under the destination root, path -> bytes
    dstDirs,      \* sync: the directories under the destination root
    dst0,         \* the destination files when the current sync run started
    dstDirs0,     \* the destination directories when the current sync run started
    dstOrig,      \* the destination files before the first sync run
    month_folders,\* main's month_folders still to be synced, in order
    mode,         \* sync_month_folder's branch for the current month: "fast" or "diff"
    stodo,        \* source files of the current month not handled yet
    cf,           \* the source file safe_copy is copying
    phase,        \* where safe_copy is
    copied,       \* sync_month_folder's copied
    skipped,      \* sync_month_folder's skipped
    total_copied, \* main's total_copied
    total_skipped,\* main's total_skipped
    report,       \* the per-month summaries printed so far, month -> [copied, skipped, mode]
    srun,         \* which sync run this is (1, or 2 after an interruption)
    retried,      \* safe_copy has fallen back to copyfile in this run
    errors        \* copytree has caught an OSError of its copy function

vars == <<fs, dirs, seen_hashes, todo, cur, stack, pc, run, lateScan, fs0, dirs0,
          nmoves, prevMoves, firstIds, last, cls,
          srcFs, srcDirs, dstFs, dstDirs, dst0, dstDirs0, dstOrig, month_folders, mode, stodo,
          cf, phase, copied, skipped, total_copied, total_skipped, report, srun, retried, errors>>

syncVars == <<srcFs, srcDirs, dstFs, dstDirs, dst0, dstDirs0, dstOrig, month_folders, mode, stodo,
              cf, phase, copied, skipped, total_copied, total_skipped, report, srun, retried, errors>>

orgVars == <<fs, dirs, seen_hashes, todo, cur, stack, run, lateScan, fs0, dirs0,
             nmoves, prevMoves, firstIds, last>>

\* the sync variables while the organizer or a harness runs
SyncIdle ==
    /\ srcFs = << >> /\ srcDirs = {} /\ dstFs = << >> /\ dstDirs = {}
    /\ dst0 = << >> /\ dstDirs0 = {} /\ dstOrig = << >>
    /\ month_folders = << >> /\ mode = "none" /\ stodo = {} /\ cf = << >> /\ phase = "none"
    /\ copied = 0 /\ skipped = 0 /\ total_copied = 0 /\ total_skipped = 0
    /\ report = << >> /\ srun = 1 /\ retried = FALSE /\ errors = FALSE

----------------------------------------------------------------------------
(* Bounds of the model *)

\* at most this many files in the initial library tree
MaxFiles == 2

\* files placed one after the other on the same target path
MaxPlace == 3

\* at most this many entries under the source root of a sync
MaxSrcFiles == 3

----------------------------------------------------------------------------
(* Program constants: organize_media_by_month.py lines 13-26 *)

IMAGE_EXTS == {".jpg", ".jpeg", ".jpe", ".tif", ".tiff", ".heic", ".png"}

RAW_EXTS == {".raf", ".cr2", ".nef", ".dng", ".arw", ".rw2", ".orf"}

VIDEO_EXTS == {".mp4", ".mov", ".m4v", ".avi", ".mts", ".m2ts"}

MEDIA_EXTS == IMAGE_EXTS \cup RAW_EXTS \cup VIDEO_EXTS

DUPLICATES_DIR_NAME == "_duplicates"

INBOX_DIR_NAME == "_inbox"

----------------------------------------------------------------------------
(* Strings: str.lower, str.rfind, str.startswith, zero-padded formatting *)

UpperAlpha == "ABCDEFGHIJKLMNOPQRSTUVWXYZ"

LowerAlpha == "abcdefghijklmnopqrstuvwxyz"

Digits == "0123456789"

CharAt(s, i) == SubSeq(s, i, i)

LowerChar(ch) ==
    IF \E i \in 1..26 : CharAt(UpperAlpha, i) = ch
    THEN CharAt(LowerAlpha, CHOOSE i \in 1..26 : CharAt(UpperAlpha, i) = ch)
    ELSE ch

RECURSIVE Lower(_)
Lower(s) == IF Len(s) = 0 THEN "" ELSE LowerChar(CharAt(s, 1)) \o Lower(SubSeq(s, 2, Len(s)))

\* 1-based index of the last occurrence of ch in s, 0 when there is none
RFind(s, ch) ==
    LET hits == {i \in 1..Len(s) : CharAt(s, i) = ch}
    IN  IF hits = {} THEN 0 ELSE CHOOSE i \in hits : \A j \in hits : j <= i

StartsWith(s, pre) == Len(s) >= Len(pre) /\ SubSeq(s, 1, Len(pre)) = pre

IsDigit(ch) == \E i \in 1..10 : CharAt(Digits, i) = ch

AllDigits(s) == Len(s) > 0 /\ \A i \in 1..Len(s) : IsDigit(CharAt(s, i))

DigitVal(ch) == (CHOOSE i \in 1..10 : CharAt(Digits, i) = ch) - 1

RECURSIVE ToInt(_)
ToInt(s) == IF Len(s) = 0 THEN 0
            ELSE 10 * ToInt(SubSeq(s, 1, Len(s) - 1)) + DigitVal(CharAt(s, Len(s)))

\* f"{n:0{w}d}" for n >= 0
RECURSIVE ZeroFill(_, _)
ZeroFill(t, w) == IF Len(t) >= w THEN t ELSE ZeroFill("0" \o t, w)

Pad(n, w) == ZeroFill(ToString(n), w)

----------------------------------------------------------------------------
(* pathlib: name, parent, suffix, stem, with_name, relative_to *)

Root == <<>>

Name(p) == p[Len(p)]

Parent(p) == SubSeq(p, 1, Len(p) - 1)

Child(d, n) == Append(d, n)

\* PurePath.suffix: from the last dot, unless the dot is first or last
Suffix(name) ==
    LET j == RFind(name, ".")
    IN  IF 1 < j /\ j < Len(name) THEN SubSeq(name, j, Len(name)) ELSE ""

\* PurePath.stem
Stem(name) ==
    LET j == RFind(name, ".")
    IN  IF 1 < j /\ j < Len(name) THEN SubSeq(name, 1, j - 1) ELSE name

WithName(p, n) == Child(Parent(p), n)

\* p.relative_to(d) does not raise
IsUnder(p, d) == Len(p) >= Len(d) /\ SubSeq(p, 1, Len(d)) = d

Ancestors(d) == {SubSeq(d, 1, i) : i \in 0..Len(d)}

\* Path.exists / is_file / is_dir on a tree (fsv: files, dv: directories)
IsFile(fsv, p) == p \in DOMAIN fsv

IsDir(dv, p) == p \in dv

Exists(fsv, dv, p) == IsFile(fsv, p) \/ IsDir(dv, p)

\* the regular files directly in d, and the directories directly in d
FilesIn(fsv, d) == {p \in DOMAIN fsv : Parent(p) = d}

Subdirs(dv, d) == {p \in dv : Len(p) > 0 /\ Parent(p) = d}

FilesBeneath(fsv, d) == {p \in DOMAIN fsv : IsUnder(p, d)}

----------------------------------------------------------------------------
(* Metadata resolver *)

NoDate == [year |-> 0, month |-> 0, day |-> 0]

\* days of a month of the proleptic Gregorian calendar (datetime's)
DaysIn(y, m) ==
    IF m \in {4, 6, 9, 11} THEN 30
    ELSE IF m # 2 THEN 31
    ELSE IF (y % 4 = 0 /\ y % 100 # 0) \/ y % 400 = 0 THEN 29 ELSE 28

\* datetime.strptime(raw, "%Y:%m:%d %H:%M:%S"): the date it yields, NoDate when it raises
StrpTime(raw) ==
    IF /\ Len(raw) = 19
       /\ CharAt(raw, 5) = ":" /\ CharAt(raw, 8) = ":" /\ CharAt(raw, 11) = " "
       /\ CharAt(raw, 14) = ":" /\ CharAt(raw, 17) = ":"
       /\ AllDigits(SubSeq(raw, 1, 4)) /\ AllDigits(SubSeq(raw, 6, 7))
       /\ AllDigits(SubSeq(raw, 9, 10)) /\ AllDigits(SubSeq(raw, 12, 13))
       /\ AllDigits(SubSeq(raw, 15, 16)) /\ AllDigits(SubSeq(raw, 18, 19))
       /\ ToInt(SubSeq(raw, 6, 7)) \in 1..12
       /\ ToInt(SubSeq(raw, 9, 10)) \in 1..DaysIn(ToInt(SubSeq(raw, 1, 4)), ToInt(SubSeq(raw, 6, 7)))
       /\ ToInt(SubSeq(raw, 1, 4)) >= 1
       /\ ToInt(SubSeq(raw, 12, 13)) <= 23 /\ ToInt(SubSeq(raw, 15, 16)) <= 59
       /\ ToInt(SubSeq(raw, 18, 19)) <= 61
    THEN [year |-> ToInt(SubSeq(raw, 1, 4)), month |-> ToInt(SubSeq(raw, 6, 7)),
          day |-> ToInt(SubSeq(raw, 9, 10))]
    ELSE NoDate

\* a GPS test that reads the block of any file, whatever its extension
has_gps_exif_any_ext(name, content) ==
    IF ~content.dec THEN FALSE ELSE content.gps

\* has_gps_exif(path); content.dec: Image.open and _getexif succeed and give a
\* non-empty EXIF block; content.gps: that block holds a non-empty GPSInfo
has_gps_exif(name, content) ==
    IF Lower(Suffix(name)) \notin IMAGE_EXTS THEN FALSE
    ELSE IF ~content.dec THEN FALSE
    ELSE content.gps

\* a resolver that does not catch the failure of strptime
get_capture_datetime_unguarded(name, content, mtime) ==
    IF /\ Lower(Suffix(name)) \in IMAGE_EXTS
       /\ content.dec
       /\ content.dto # ""
    THEN StrpTime(content.dto)
    ELSE mtime

\* get_capture_datetime(path); content.dto: the DateTimeOriginal field, "" when absent
get_capture_datetime(name, content, mtime) ==
    IF /\ Lower(Suffix(name)) \in IMAGE_EXTS
       /\ content.dec
       /\ content.dto # ""
       /\ StrpTime(content.dto) # NoDate
    THEN StrpTime(content.dto)
    ELSE mtime

\* file_hash(path): SHA-256 of the bytes
file_hash(content) == content

----------------------------------------------------------------------------
(* Path classifier: organize lines 157-184 *)

month_folder_name(dt) == Pad(dt.year, 4) \o "-" \o Pad(dt.month, 2)

day_folder_name(dt) == Pad(dt.year, 4) \o "-" \o Pad(dt.month, 2) \o "-" \o Pad(dt.day, 2)

\* a classifier that consults the GPS block for videos too
target_dir_geo_video(name, content, mtime) ==
    LET ext == Lower(Suffix(name))
        dt == get_capture_datetime(name, content, mtime)
        is_geo == content.dec /\ content.gps
        photo_type == IF ext \in VIDEO_EXTS THEN "video"
                      ELSE IF ext \in RAW_EXTS THEN "raw" ELSE "jpeg"
    IN  IF is_geo
        THEN <<month_folder_name(dt), day_folder_name(dt), "geo", photo_type>>
        ELSE <<month_folder_name(dt), day_folder_name(dt), photo_type>>

\* target_dir of lines 157-182, relative to root_folder, for a file with this
\* name, content and modification date
target_dir(name, content, mtime) ==
    LET ext == Lower(Suffix(name))
        dt == get_capture_datetime(name, content, mtime)
    IN  IF ext \in VIDEO_EXTS
        THEN <<month_folder_name(dt), day_folder_name(dt), "video">>
        ELSE LET is_geo == has_gps_exif(name, content)
                 photo_type == IF ext \in RAW_EXTS THEN "raw" ELSE "jpeg"
             IN  IF is_geo
                 THEN <<month_folder_name(dt), day_folder_name(dt), "geo", photo_type>>
                 ELSE <<month_folder_name(dt), day_folder_name(dt), photo_type>>

----------------------------------------------------------------------------
(* Safe placement: safe_move lines 73-89 *)

\* an "if" where the code has "while": one disambiguator, not checked again
ProbeOnce(fsv, dv, dst, candidate, counter) ==
    IF Exists(fsv, dv, candidate)
    THEN WithName(dst, Stem(Name(dst)) \o "_" \o ToString(counter) \o Suffix(Name(dst)))
    ELSE candidate

\* the while loop of lines 85-87
RECURSIVE Probe(_, _, _, _, _)
Probe(fsv, dv, dst, candidate, counter) ==
    IF Exists(fsv, dv, candidate)
    THEN Probe(fsv, dv, dst,
               WithName(dst, Stem(Name(dst)) \o "_" \o ToString(counter) \o Suffix(Name(dst))),
               counter + 1)
    ELSE candidate

\* shutil.move(src, candidate) onto a path that does not exist: a rename
MoveFile(fsv, src, candidate) ==
    [q \in (DOMAIN fsv \ {src}) \cup {candidate} |->
        IF q = candidate THEN fsv[src] ELSE fsv[q]]

\* safe_move(src, dst): the tree after it and the path the file landed on
safe_move(fsv, dv, src, dst) ==
    LET dv2 == dv \cup Ancestors(Parent(dst))
        candidate == Probe(fsv, dv2, dst, dst, 1)
    IN  [fs |-> MoveFile(fsv, src, candidate), dirs |-> dv2, to |-> candidate]

----------------------------------------------------------------------------
(* The library trees the organizer is started on *)

\* what the EXIF decoder finds in a file's bytes; tag tells apart byte contents
\* that decode alike
C_plain == [dec |-> TRUE, dto |-> "2025:03:14 10:00:00", gps |-> FALSE, tag |-> 1]

C_plain2 == [dec |-> TRUE, dto |-> "2025:03:14 10:00:00", gps |-> FALSE, tag |-> 2]

C_geo == [dec |-> TRUE, dto |-> "2025:03:14 10:00:00", gps |-> TRUE, tag |-> 1]

C_none == [dec |-> FALSE, dto |-> "", gps |-> FALSE, tag |-> 1]

\* the modification date of the files of the initial tree
MTime == [year |-> 2024, month |-> 11, day |-> 9]

D_root == Root

D_inbox == <<INBOX_DIR_NAME>>

D_jpeg == <<"2025-03", "2025-03-14", "jpeg">>

D_nogeo == <<"2025-03", "2025-03-14", "no-geo">>

D_dups == <<DUPLICATES_DIR_NAME>>

Seed(d, n, c) == [path |-> Child(d, n), content |-> c]

\* the files an initial tree is made of: loose files at the root, files dropped
\* into the inbox, files of an organized day, files of the superseded no-geo
\* layout, and files quarantined by an earlier run
SeedList ==
    << Seed(D_root, "a.jpg", C_plain),   Seed(D_root, "a.jpg", C_plain2),
       Seed(D_root, "a.jpg", C_geo),     Seed(D_root, "b.JPG", C_plain),
       Seed(D_root, "a.raf", C_none),    Seed(D_root, "v.mp4", C_none),
       Seed(D_root, "n.txt", C_plain),
       Seed(D_inbox, "a.jpg", C_plain),  Seed(D_inbox, "a.jpg", C_plain2),
       Seed(D_inbox, "a.jpg", C_geo),    Seed(D_inbox, "b.JPG", C_plain),
       Seed(D_inbox, "a.raf", C_geo),    Seed(D_inbox, "v.mp4", C_none),
       Seed(D_inbox, ".h.jpg", C_plain),
       Seed(D_jpeg, "a.jpg", C_plain),   Seed(D_jpeg, "a.jpg", C_plain2),
       Seed(D_jpeg, "a_1.jpg", C_plain2), Seed(D_jpeg, "b.JPG", C_plain),
       Seed(D_jpeg, "v.mp4", C_none),
       Seed(D_nogeo, "a.jpg", C_plain),  Seed(D_nogeo, "a.jpg", C_geo),
       Seed(D_nogeo, "n.txt", C_plain),  Seed(D_nogeo, ".h.jpg", C_plain),
       Seed(D_dups, "a.jpg", C_plain),   Seed(D_dups, "a_1.jpg", C_plain2) >>

\* the tree with file i made of seed idx[i]
TreeOf(n, idx) ==
    [p \in {SeedList[idx[i]].path : i \in 1..n} |->
        LET i == CHOOSE i \in 1..n : SeedList[idx[i]].path = p
        IN  [id |-> i, content |-> SeedList[idx[i]].content, mtime |-> MTime]]

DirsOf(fsv) == UNION {Ancestors(Parent(p)) : p \in DOMAIN fsv} \cup {Root}

NoLast == [kind |-> "none", src |-> Root, to |-> Root]

NoCls == [name |-> "", content |-> C_none, mtime |-> NoDate, target |-> Root,
          dt |-> NoDate, geo |-> FALSE]

----------------------------------------------------------------------------
(* organize(root_folder) *)

duplicates_root == <<DUPLICATES_DIR_NAME>>

inbox_folder == <<INBOX_DIR_NAME>>

\* lines 116-127: the inbox is created, the index is empty, the walk lists the root
Start ==
    /\ pc = "start"
    /\ pc' = "walk"
    /\ fs0' = fs
    /\ dirs0' = dirs
    /\ dirs' = dirs \cup {inbox_folder}
    /\ seen_hashes' = << >>
    /\ firstIds' = {}
    /\ nmoves' = 0
    /\ cur' = Root
    /\ todo' = FilesIn(fs, Root)
    /\ stack' = IF lateScan THEN << >> ELSE << Subdirs(dirs', Root) >>
    /\ last' = NoLast
    /\ UNCHANGED <<fs, run, lateScan, prevMoves, cls, syncVars>>

\* a loop that also passes over what lies in the inbox
SkippedInbox(fsv, p) ==
    \/ ~IsFile(fsv, p)
    \/ IsUnder(p, duplicates_root)
    \/ IsUnder(p, inbox_folder)
    \/ StartsWith(Name(p), ".")
    \/ Lower(Suffix(Name(p))) \notin MEDIA_EXTS

\* lines 128-145: the entries the loop passes over
Skipped(fsv, p) ==
    \/ ~IsFile(fsv, p)
    \/ IsUnder(p, duplicates_root)
    \/ StartsWith(Name(p), ".")
    \/ Lower(Suffix(Name(p))) \notin MEDIA_EXTS

\* the loop without its "already in the correct folder" test
InPlaceNever(p, td) == FALSE

\* line 187: the file already sits in its target directory
InPlace(p, td) == Parent(p) = td

\* lines 128-191: one iteration of the loop, for the yielded path p
LoopBody(p) ==
    IF Skipped(fs, p)
    THEN /\ last' = [kind |-> "skip", src |-> p, to |-> p]
         /\ UNCHANGED <<fs, dirs, seen_hashes, firstIds, nmoves>>
    ELSE LET f == fs[p]
             h == file_hash(f.content)
         IN  IF h \in DOMAIN seen_hashes
             THEN LET r == safe_move(fs, dirs, p, Child(duplicates_root, Name(p)))
                  IN  /\ fs' = r.fs
                      /\ dirs' = r.dirs
                      /\ nmoves' = nmoves + 1
                      /\ last' = [kind |-> "dup", src |-> p, to |-> r.to]
                      /\ UNCHANGED <<seen_hashes, firstIds>>
             ELSE /\ seen_hashes' = [k \in DOMAIN seen_hashes \cup {h} |->
                                        IF k = h THEN p ELSE seen_hashes[k]]
                  /\ firstIds' = firstIds \cup {f.id}
                  /\ LET td == target_dir(Name(p), f.content, f.mtime)
                     IN  IF InPlace(p, td)
                         THEN /\ last' = [kind |-> "inplace", src |-> p, to |-> p]
                              /\ UNCHANGED <<fs, dirs, nmoves>>
                         ELSE LET r == safe_move(fs, dirs, p, Child(td, Name(p)))
                              IN  /\ fs' = r.fs
                                  /\ dirs' = r.dirs
                                  /\ nmoves' = nmoves + 1
                                  /\ last' = [kind |-> "canon", src |-> p, to |-> r.to]

\* the walk yields one of the listed entries and the loop body runs on it
Visit ==
    /\ pc = "walk"
    /\ todo # {}
    /\ \E p \in todo :
         /\ todo' = todo \ {p}
         /\ LoopBody(p)
    /\ UNCHANGED <<cur, stack, pc, run, lateScan, fs0, dirs0, prevMoves, cls, syncVars>>

\* the frames of the walk that still hold a directory to descend into
RECURSIVE Strip(_)
Strip(st) == IF st = << >> THEN st
             ELSE IF st[Len(st)] = {} THEN Strip(SubSeq(st, 1, Len(st) - 1))
             ELSE st

\* where rglob("*") can be when it next yields a file, from directory c with the
\* pending frames st: it lists each directory it enters (fsv, dv: the tree as it
\* is now, nothing moves while the walk runs on), passes the directories it
\* yields (line 128: not a file) and those that hold no file, in any order the
\* listing may give; end: the walk is exhausted
RECURSIVE Stops(_, _, _, _, _)
Stops(fsv, dv, late, c, st) ==
    LET st1 == IF late THEN Append(st, Subdirs(dv, c)) ELSE st
        st2 == Strip(st1)
    IN  IF st2 = << >>
        THEN {[end |-> TRUE, cur |-> Root, todo |-> {}, stack |-> << >>]}
        ELSE UNION { LET st3 == [st2 EXCEPT ![Len(st2)] = @ \ {s}]
                         st4 == IF late THEN st3 ELSE Append(st3, Subdirs(dv, s))
                     IN  IF FilesIn(fsv, s) # {}
                         THEN {[end |-> FALSE, cur |-> s, todo |-> FilesIn(fsv, s), stack |-> st4]}
                         ELSE Stops(fsv, dv, late, s, st4)
                   : s \in st2[Len(st2)] }

\* rglob("*") moves on: the entries of the current directory are used up, so the
\* walk descends to the next directory that holds a file and lists it, or ends
Advance ==
    /\ pc = "walk"
    /\ todo = {}
    /\ \E nx \in Stops(fs, dirs, lateScan, cur, stack) :
         /\ cur' = nx.cur
         /\ todo' = nx.todo
         /\ stack' = nx.stack
         /\ pc' = IF nx.end THEN "cleanup" ELSE pc
    /\ UNCHANGED <<fs, dirs, seen_hashes, run, lateScan, fs0, dirs0, nmoves, prevMoves,
                   firstIds, last, cls, syncVars>>

\* a cleanup that does not look for files beneath the directory
AnyNoGeo(fsv, dv) == {d \in dv : Len(d) > 0 /\ Name(d) = "no-geo"}

\* a cleanup that looks for media files only beneath the directory
NoMediaNoGeo(fsv, dv) ==
    {d \in dv : /\ Len(d) > 0 /\ Name(d) = "no-geo"
                /\ {p \in FilesBeneath(fsv, d) : Lower(Suffix(Name(p))) \in MEDIA_EXTS} = {}}

\* the no-geo directories lines 194-205 remove: those with no file beneath them
EmptyNoGeo(fsv, dv) ==
    {d \in dv : Len(d) > 0 /\ Name(d) = "no-geo" /\ FilesBeneath(fsv, d) = {}}

\* lines 193-205: shutil.rmtree of each of them
Cleanup ==
    /\ pc = "cleanup"
    /\ pc' = "done"
    /\ LET gone == EmptyNoGeo(fs, dirs)
       IN  /\ dirs' = {d \in dirs : ~ \E g \in gone : IsUnder(d, g)}
           /\ fs' = [p \in {q \in DOMAIN fs : ~ \E g \in gone : IsUnder(q, g)} |-> fs[p]]
    /\ UNCHANGED <<seen_hashes, todo, cur, stack, run, lateScan, fs0, dirs0, nmoves,
                   prevMoves, firstIds, last, cls, syncVars>>

\* the operator runs the organizer again on the tree the first run left
Rerun ==
    /\ pc = "done"
    /\ run = 1
    /\ run' = 2
    /\ pc' = "start"
    /\ prevMoves' = nmoves
    /\ UNCHANGED <<fs, dirs, seen_hashes, todo, cur, stack, lateScan, fs0, dirs0, nmoves,
                   firstIds, last, cls, syncVars>>

Init ==
    /\ \E n \in 0..MaxFiles :
         \E idx \in [1..n -> 1..Len(SeedList)] :
           /\ \A i \in 1..n : \A j \in 1..n : i < j => idx[i] < idx[j]
           /\ \A i \in 1..n : \A j \in 1..n :
                i < j => SeedList[idx[i]].path # SeedList[idx[j]].path
           /\ fs = TreeOf(n, idx)
    /\ dirs = DirsOf(fs)
    /\ lateScan \in BOOLEAN
    /\ pc = "start"
    /\ run = 1
    /\ seen_hashes = << >>
    /\ todo = {}
    /\ cur = Root
    /\ stack = << >>
    /\ fs0 = fs
    /\ dirs0 = dirs
    /\ nmoves = 0
    /\ prevMoves = 0
    /\ firstIds = {}
    /\ last = NoLast
    /\ cls = NoCls
    /\ SyncIdle

Next == Start \/ Visit \/ Advance \/ Cleanup \/ Rerun

Spec == Init /\ [][Next]_vars

----------------------------------------------------------------------------
(* The organizer on library trees that hold files named with a leading
   underscore (the marker of _inbox and _duplicates) next to hidden, non-media,
   quarantined and ordinary files *)

MarkedSeedList ==
    << Seed(D_root, "a.jpg", C_plain),   Seed(D_root, "_u.jpg", C_plain),
       Seed(D_root, "n.txt", C_plain),
       Seed(D_inbox, "a.jpg", C_plain),  Seed(D_inbox, "_u.jpg", C_plain2),
       Seed(D_inbox, ".h.jpg", C_plain), Seed(D_inbox, "a.raf", C_geo),
       Seed(D_jpeg, "a.jpg", C_plain),   Seed(D_jpeg, "_u.jpg", C_plain),
       Seed(D_nogeo, "a.jpg", C_plain),
       Seed(D_dups, "a.jpg", C_plain),   Seed(D_dups, "_u.jpg", C_plain) >>

\* the tree with file i made of seed idx[i] of the list
TreeFrom(list, n, idx) ==
    [p \in {list[idx[i]].path : i \in 1..n} |->
        LET i == CHOOSE i \in 1..n : list[idx[i]].path = p
        IN  [id |-> i, content |-> list[idx[i]].content, mtime |-> MTime]]

InitMarked ==
    /\ \E n \in 0..MaxFiles :
         \E idx \in [1..n -> 1..Len(MarkedSeedList)] :
           /\ \A i \in 1..n : \A j \in 1..n : i < j => idx[i] < idx[j]
           /\ \A i \in 1..n : \A j \in 1..n :
                i < j => MarkedSeedList[idx[i]].path # MarkedSeedList[idx[j]].path
           /\ fs = TreeFrom(MarkedSeedList, n, idx)
    /\ dirs = DirsOf(fs)
    /\ lateScan \in BOOLEAN
    /\ pc = "start"
    /\ run = 1
    /\ seen_hashes = << >>
    /\ todo = {}
    /\ cur = Root
    /\ stack = << >>
    /\ fs0 = fs
    /\ dirs0 = dirs
    /\ nmoves = 0
    /\ prevMoves = 0
    /\ firstIds = {}
    /\ last = NoLast
    /\ cls = NoCls
    /\ SyncIdle

SpecMarked == InitMarked /\ [][Next]_vars

----------------------------------------------------------------------------
(* The organizer when an I/O operation fails: open or read in file_hash
   (lines 94-99), mkdir or shutil.move in safe_move (lines 78, 89).  organize
   and the main block catch nothing, so the exception ends the program. *)

\* what is left at the destination of a copy that stopped part-way
Truncated(f) == [id |-> 0, content |-> [f.content EXCEPT !.dec = FALSE, !.tag = 0], mtime |-> f.mtime]

\* a move that removes the source although it failed
FailedMoveLosesSource(fsv, src, candidate) ==
    {[q \in DOMAIN fsv \ {src} |-> fsv[q]]}

\* the trees shutil.move(src, candidate) can leave when it raises: os.rename
\* failed, and then nothing has changed, or the copy2 it falls back to across
\* file systems stopped part-way, or the copy was made and os.unlink(src) failed
FailedMove(fsv, src, candidate) ==
    { fsv,
      [q \in DOMAIN fsv \cup {candidate} |-> IF q = candidate THEN Truncated(fsv[src]) ELSE fsv[q]],
      [q \in DOMAIN fsv \cup {candidate} |->
          IF q = candidate THEN [fsv[src] EXCEPT !.id = 0] ELSE fsv[q]] }

\* the directories mkdir(parents=True) of line 78 has made when it raises
FailedMkdir(dv, d) == {dv} \cup {dv \cup Ancestors(a) : a \in Ancestors(d) \ {d}}

\* line 148: file_hash raises for the yielded file
HashFails ==
    /\ pc = "walk"
    /\ todo # {}
    /\ \E p \in todo :
         /\ ~Skipped(fs, p)
         /\ last' = [kind |-> "hash-error", src |-> p, to |-> p]
    /\ pc' = "failed"
    /\ UNCHANGED <<fs, dirs, seen_hashes, todo, cur, stack, run, lateScan, fs0, dirs0, nmoves,
                   prevMoves, firstIds, cls, syncVars>>

\* lines 152 or 191: safe_move raises for the yielded file, in mkdir or in shutil.move
MoveFails ==
    /\ pc = "walk"
    /\ todo # {}
    /\ \E p \in todo :
         /\ ~Skipped(fs, p)
         /\ LET f == fs[p]
                h == file_hash(f.content)
                isdup == h \in DOMAIN seen_hashes
                td == target_dir(Name(p), f.content, f.mtime)
                dst == IF isdup THEN Child(duplicates_root, Name(p)) ELSE Child(td, Name(p))
                dv2 == dirs \cup Ancestors(Parent(dst))
            IN  /\ isdup \/ ~InPlace(p, td)
                /\ IF isdup
                   THEN UNCHANGED <<seen_hashes, firstIds>>
                   ELSE /\ seen_hashes' = [k \in DOMAIN seen_hashes \cup {h} |->
                                              IF k = h THEN p ELSE seen_hashes[k]]
                        /\ firstIds' = firstIds \cup {f.id}
                /\ \/ /\ dirs' \in FailedMkdir(dirs, Parent(dst))
                      /\ fs' = fs
                   \/ /\ dirs' = dv2
                      /\ fs' \in FailedMove(fs, p, Probe(fs, dv2, dst, dst, 1))
                /\ last' = [kind |-> "move-error", src |-> p, to |-> p]
    /\ pc' = "failed"
    /\ UNCHANGED <<todo, cur, stack, run, lateScan, fs0, dirs0, nmoves, prevMoves, cls, syncVars>>

NextFatal == Start \/ Visit \/ Advance \/ Cleanup \/ Rerun \/ HashFails \/ MoveFails

SpecFatal == InitMarked /\ [][NextFatal]_vars

----------------------------------------------------------------------------
(* The path classifier on its own: organize's lines 143 and 157-182 applied to
   one file, over more names, contents and dates than the trees above hold *)

C_late == [dec |-> TRUE, dto |-> "2023:12:31 23:59:59", gps |-> TRUE, tag |-> 1]

\* a capture field strptime rejects (no 30th of February)
C_baddate == [dec |-> TRUE, dto |-> "2025:02:30 10:00:00", gps |-> TRUE, tag |-> 1]

\* an EXIF block without the capture field
C_nodto == [dec |-> TRUE, dto |-> "", gps |-> FALSE, tag |-> 1]

\* a file Image.open or _getexif raises on, whatever its bytes hold
C_undec == [dec |-> FALSE, dto |-> "2025:03:14 10:00:00", gps |-> TRUE, tag |-> 1]

ClsContents == {C_plain, C_geo, C_none, C_late, C_baddate, C_nodto, C_undec}

ClsNames == {"a.jpg", "b.JPG", "c.png", "a.raf", "d.DNG", "v.mp4", "w.MOV"}

ClsDates == {MTime, [year |-> 2025, month |-> 1, day |-> 31], [year |-> 1999, month |-> 12, day |-> 5]}

\* the organizer's variables while a harness runs
OrgIdle ==
    /\ fs = << >>
    /\ dirs = {Root}
    /\ lateScan = FALSE
    /\ run = 1
    /\ seen_hashes = << >>
    /\ todo = {}
    /\ cur = Root
    /\ stack = << >>
    /\ fs0 = << >>
    /\ dirs0 = {Root}
    /\ nmoves = 0
    /\ prevMoves = 0
    /\ firstIds = {}
    /\ last = NoLast

InitClassify ==
    /\ pc = "classify"
    /\ \E n \in ClsNames : \E c \in ClsContents : \E m \in ClsDates :
         cls = [name |-> n, content |-> c, mtime |-> m, target |-> Root,
                dt |-> NoDate, geo |-> FALSE]
    /\ OrgIdle
    /\ SyncIdle

\* lines 143 and 157-182 for the file cls describes, with what
\* get_capture_datetime (line 158) and has_gps_exif (line 168) return for it
Classify ==
    /\ pc = "classify"
    /\ pc' = "classified"
    /\ cls' = [cls EXCEPT !.target = target_dir(cls.name, cls.content, cls.mtime),
                          !.dt = get_capture_datetime(cls.name, cls.content, cls.mtime),
                          !.geo = has_gps_exif(cls.name, cls.content)]
    /\ UNCHANGED <<orgVars, syncVars>>

SpecClassify == InitClassify /\ [][Classify]_vars

----------------------------------------------------------------------------
(* safe_move on its own: files of the same name, each in a directory of its
   own, are placed one after the other on the same target path *)

T_dir == <<"t">>

PlaceNames == {"a.jpg", "a_1.jpg", "a.tar.gz", "noext"}

SourceDir(i) == <<"s" \o ToString(i)>>

InitPlace ==
    /\ pc = "place"
    /\ \E n \in PlaceNames :
       \E occ \in [{n, Stem(n) \o "_1" \o Suffix(n), Stem(n) \o "_2" \o Suffix(n)}
                     -> {"absent", "file", "dir"}] :
         /\ fs = [p \in {Child(T_dir, o) : o \in {o \in DOMAIN occ : occ[o] = "file"}}
                        \cup {Child(SourceDir(i), n) : i \in 1..MaxPlace} |->
                    IF Parent(p) = T_dir
                    THEN [id |-> 0, content |-> [C_none EXCEPT !.tag = Len(Name(p))], mtime |-> MTime]
                    ELSE [id |-> ToInt(SubSeq(p[1], 2, Len(p[1]))),
                          content |-> [C_plain EXCEPT !.tag = ToInt(SubSeq(p[1], 2, Len(p[1])))],
                          mtime |-> MTime]]
         /\ dirs = {Root} \cup {SourceDir(i) : i \in 1..MaxPlace}
                   \cup {Child(T_dir, o) : o \in {o \in DOMAIN occ : occ[o] = "dir"}}
                   \cup (IF \E o \in DOMAIN occ : occ[o] # "absent" THEN {T_dir} ELSE {})
    /\ fs0 = fs
    /\ dirs0 = dirs
    /\ lateScan = FALSE
    /\ run = 1
    /\ seen_hashes = << >>
    /\ todo = {}
    /\ cur = Root
    /\ stack = << >>
    /\ nmoves = 0
    /\ prevMoves = 0
    /\ firstIds = {}
    /\ last = NoLast
    /\ cls = NoCls
    /\ SyncIdle

\* safe_move(src, T_dir / src.name) for a file not placed yet
Place ==
    /\ pc = "place"
    /\ \E src \in {p \in DOMAIN fs : Parent(p) # T_dir} :
         LET r == safe_move(fs, dirs, src, Child(T_dir, Name(src)))
         IN  /\ fs' = r.fs
             /\ dirs' = r.dirs
             /\ last' = [kind |-> "place", src |-> src, to |-> r.to]
    /\ nmoves' = nmoves + 1
    /\ UNCHANGED <<seen_hashes, todo, cur, stack, pc, run, lateScan, fs0, dirs0, prevMoves,
                   firstIds, cls, syncVars>>

SpecPlace == InitPlace /\ [][Place]_vars

----------------------------------------------------------------------------
(* Archive sync: migrate_media_to_SSD.py.  Paths are relative to the source
   root and to the destination root; a file's content is its bytes. *)

\* the characters of the names used, in code point order
CodePoints == "-.0123456789ABCDEFGHIJKLMNOPQRSTUVWXYZ_abcdefghijklmnopqrstuvwxyz"

Ord(ch) == CHOOSE i \in 1..Len(CodePoints) : CharAt(CodePoints, i) = ch

\* a < b for Python strings
RECURSIVE StrLess(_, _)
StrLess(a, b) ==
    IF Len(b) = 0 THEN FALSE
    ELSE IF Len(a) = 0 THEN TRUE
    ELSE IF CharAt(a, 1) # CharAt(b, 1) THEN Ord(CharAt(a, 1)) < Ord(CharAt(b, 1))
    ELSE StrLess(SubSeq(a, 2, Len(a)), SubSeq(b, 2, Len(b)))

\* sorted(names)
RECURSIVE Sorted(_)
Sorted(S) ==
    IF S = {} THEN << >>
    ELSE LET m == CHOOSE x \in S : \A y \in S : x = y \/ StrLess(x, y)
         IN  <<m>> \o Sorted(S \ {m})

\* is_month_folder(name), lines 21-28
is_month_folder(name) ==
    IF Len(name) # 7 THEN FALSE
    ELSE IF CharAt(name, 5) # "-" THEN FALSE
    ELSE AllDigits(SubSeq(name, 1, 4)) /\ AllDigits(SubSeq(name, 6, 7))

\* month_folders without the is_month_folder test: every top-level directory
MonthFoldersAll(sd) ==
    Sorted({d[1] : d \in {d \in sd : Len(d) = 1}})

\* main lines 116-119: the names of the top-level directories that look like YYYY-MM, sorted
MonthFolders(sd) ==
    Sorted({d[1] : d \in {d \in sd : Len(d) = 1 /\ is_month_folder(d[1])}})

\* the map fn with key k set to v
Put(fn, k, v) == [q \in DOMAIN fn \cup {k} |-> IF q = k THEN v ELSE fn[q]]

\* line 61: dst_month.exists()
DstExists(dv, ddv, p) == p \in DOMAIN dv \/ p \in ddv

\* a differential path that does not test the destination path
DstFileExistsNever(dv, ddv, p) == FALSE

\* line 81: dst_file.exists()
DstFileExists(dv, ddv, p) == p \in DOMAIN dv \/ p \in ddv

\* the source trees: entries a tree may hold, with their bytes
SrcSlots ==
    << <<"2025-03", "a.jpg">>, <<"2025-03", "d", "b.jpg">>, <<"2025-04", "a.jpg">>,
       <<"misc", "a.jpg">>, <<"2025-1x", "a.jpg">>, <<"2025-05">>,
       <<"misc", "2025-06", "a.jpg">> >>

SrcBytes == <<1, 2>>

OtherBytes == <<9>>

\* the destination paths that may be occupied before the first run
DstSlots ==
    << <<"2025-03", "a.jpg">>, <<"2025-03", "d", "b.jpg">>, <<"2025-04", "a.jpg">> >>

InitSync ==
    /\ pc = "sync-start"
    /\ \E S \in SUBSET (1..Len(SrcSlots)) :
         /\ Cardinality(S) <= MaxSrcFiles
         /\ srcFs = [p \in {SrcSlots[k] : k \in S} |-> SrcBytes]
         /\ \E extra \in SUBSET {<<"2025-04">>} :
              srcDirs = (UNION {Ancestors(Parent(p)) : p \in DOMAIN srcFs} \ {Root}) \cup extra
    /\ \E occ \in [1..Len(DstSlots) -> {"absent", "same", "other"}] :
         /\ occ[2] # "other" /\ occ[3] # "other"
         /\ dstFs = [p \in {DstSlots[k] : k \in {k \in DOMAIN occ : occ[k] # "absent"}} |->
                     IF occ[CHOOSE k \in DOMAIN occ : DstSlots[k] = p] = "same"
                     THEN SrcBytes ELSE OtherBytes]
         /\ \E extra \in SUBSET {<<"2025-03">>, <<"2025-04">>} :
              dstDirs = (UNION {Ancestors(Parent(p)) : p \in DOMAIN dstFs} \ {Root}) \cup extra
    /\ dst0 = dstFs /\ dstDirs0 = dstDirs /\ dstOrig = dstFs
    /\ month_folders = << >> /\ mode = "none" /\ stodo = {} /\ cf = << >> /\ phase = "none"
    /\ copied = 0 /\ skipped = 0 /\ total_copied = 0 /\ total_skipped = 0
    /\ report = << >> /\ srun = 1 /\ retried = FALSE /\ errors = FALSE
    /\ OrgIdle
    /\ cls = NoCls

\* main lines 100-131: the month folders are listed and sorted, the totals are zero
SyncStart ==
    /\ pc = "sync-start"
    /\ month_folders' = MonthFolders(srcDirs)
    /\ pc' = IF month_folders' = << >> THEN "sync-exit" ELSE "sync-months"
    /\ dst0' = dstFs
    /\ dstDirs0' = dstDirs
    /\ total_copied' = 0
    /\ total_skipped' = 0
    /\ report' = << >>
    /\ retried' = FALSE
    /\ errors' = FALSE
    /\ mode' = "none" /\ stodo' = {} /\ cf' = << >> /\ phase' = "none"
    /\ copied' = 0 /\ skipped' = 0
    /\ UNCHANGED <<srcFs, srcDirs, dstFs, dstDirs, dstOrig, srun, orgVars, cls>>

\* lines 133-135 and 57-64 / 73-74: sync_month_folder is entered for the next
\* month; a month the destination lacks is created by copytree
MonthBegin ==
    /\ pc = "sync-months"
    /\ month_folders # << >>
    /\ LET m == <<Head(month_folders)>>
       IN  /\ IF ~DstExists(dstFs, dstDirs, m)
              THEN mode' = "fast" /\ dstDirs' = dstDirs \cup {m}
              ELSE mode' = "diff" /\ dstDirs' = dstDirs
           /\ stodo' = {f \in DOMAIN srcFs : IsUnder(f, m)}
    /\ copied' = 0
    /\ skipped' = 0
    /\ pc' = "sync-files"
    /\ UNCHANGED <<errors, srcFs, srcDirs, dstFs, dst0, dstDirs0, dstOrig, month_folders, cf, phase,
                   total_copied, total_skipped, report, srun, retried, orgVars, cls>>

\* lines 74-85: the next source file has a destination path that exists
SkipExisting ==
    /\ pc = "sync-files"
    /\ mode = "diff"
    /\ \E f \in stodo :
         /\ DstFileExists(dstFs, dstDirs, f)
         /\ stodo' = stodo \ {f}
    /\ skipped' = skipped + 1
    /\ UNCHANGED <<errors, srcFs, srcDirs, dstFs, dstDirs, dst0, dstDirs0, dstOrig, month_folders, mode,
                   cf, phase, copied, total_copied, total_skipped, report, srun, retried,
                   pc, orgVars, cls>>

\* line 87 or copytree's copy_function, and lines 41-44: safe_copy is entered
\* for the next source file and makes the parent directories
BeginCopy ==
    /\ pc = "sync-files"
    /\ \E f \in stodo :
         /\ mode = "diff" => ~DstFileExists(dstFs, dstDirs, f)
         /\ cf' = f
         /\ dstDirs' = dstDirs \cup (Ancestors(Parent(f)) \ {Root})
    /\ phase' = "copy2"
    /\ pc' = "sync-copy"
    /\ UNCHANGED <<errors, srcFs, srcDirs, dstFs, dst0, dstDirs0, dstOrig, month_folders, mode, stodo,
                   copied, skipped, total_copied, total_skipped, report, srun, retried,
                   orgVars, cls>>

\* copy2 (line 45) or copyfile (line 48) opens the destination for writing
OpenDst ==
    /\ pc = "sync-copy"
    /\ phase \in {"copy2", "retry"}
    /\ phase' = IF phase = "copy2" THEN "copy2-write" ELSE "retry-write"
    /\ dstFs' = Put(dstFs, cf, << >>)
    /\ UNCHANGED <<errors, srcFs, srcDirs, dstDirs, dst0, dstDirs0, dstOrig, month_folders, mode, stodo,
                   cf, copied, skipped, total_copied, total_skipped, report, srun, retried,
                   pc, orgVars, cls>>

\* the next chunk of the source is written
WriteChunk ==
    /\ pc = "sync-copy"
    /\ phase \in {"copy2-write", "retry-write"}
    /\ Len(dstFs[cf]) < Len(srcFs[cf])
    /\ dstFs' = [dstFs EXCEPT ![cf] = Append(@, srcFs[cf][Len(@) + 1])]
    /\ UNCHANGED <<errors, srcFs, srcDirs, dstDirs, dst0, dstDirs0, dstOrig, month_folders, mode, stodo,
                   cf, phase, copied, skipped, total_copied, total_skipped, report, srun,
                   retried, pc, orgVars, cls>>

\* a migration that moves: the source file is removed once it is copied
FinishCopyMove ==
    /\ pc = "sync-copy"
    /\ phase \in {"copy2-write", "retry-write"}
    /\ Len(dstFs[cf]) = Len(srcFs[cf])
    /\ srcFs' = [q \in DOMAIN srcFs \ {cf} |-> srcFs[q]]
    /\ stodo' = stodo \ {cf}
    /\ copied' = IF mode = "diff" THEN copied + 1 ELSE copied
    /\ cf' = << >>
    /\ phase' = "none"
    /\ pc' = "sync-files"
    /\ UNCHANGED <<errors, srcDirs, dstFs, dstDirs, dst0, dstDirs0, dstOrig, month_folders, mode,
                   skipped, total_copied, total_skipped, report, srun, retried, orgVars, cls>>

\* safe_copy returns; the differential path counts the file (line 88)
FinishCopy ==
    /\ pc = "sync-copy"
    /\ phase \in {"copy2-write", "retry-write"}
    /\ Len(dstFs[cf]) = Len(srcFs[cf])
    /\ stodo' = stodo \ {cf}
    /\ copied' = IF mode = "diff" THEN copied + 1 ELSE copied
    /\ cf' = << >>
    /\ phase' = "none"
    /\ pc' = "sync-files"
    /\ UNCHANGED <<errors, srcFs, srcDirs, dstFs, dstDirs, dst0, dstDirs0, dstOrig, month_folders, mode,
                   skipped, total_copied, total_skipped, report, srun, retried, orgVars, cls>>

\* lines 46-47: copy2 raises OSError, before, while or after writing the bytes;
\* safe_copy prints the warning and goes on to copyfile
Copy2Fails ==
    /\ pc = "sync-copy"
    /\ phase \in {"copy2", "copy2-write"}
    /\ phase' = "retry"
    /\ retried' = TRUE
    /\ UNCHANGED <<errors, srcFs, srcDirs, dstFs, dstDirs, dst0, dstDirs0, dstOrig, month_folders, mode,
                   stodo, cf, copied, skipped, total_copied, total_skipped, report, srun,
                   pc, orgVars, cls>>

\* line 48: copyfile raises.  On the differential path nothing catches it and
\* the program ends; copytree catches the OSError of its copy function, notes
\* it and goes on with the next entry
RetryFails ==
    /\ pc = "sync-copy"
    /\ phase \in {"retry", "retry-write"}
    /\ IF mode = "fast"
       THEN /\ errors' = TRUE
            /\ stodo' = stodo \ {cf}
            /\ cf' = << >>
            /\ phase' = "none"
            /\ pc' = "sync-files"
       ELSE /\ pc' = "sync-crashed"
            /\ UNCHANGED <<errors, stodo, cf, phase>>
    /\ UNCHANGED <<srcFs, srcDirs, dstFs, dstDirs, dst0, dstDirs0, dstOrig, month_folders, mode,
                   copied, skipped, total_copied, total_skipped, report, srun, retried,
                   orgVars, cls>>

\* copytree ends by raising shutil.Error: a copy failed, or copystat on a
\* directory of the month did (a destination that rejects the attributes);
\* nothing catches it and the program ends
CopytreeRaises ==
    /\ pc = "sync-files"
    /\ stodo = {}
    /\ mode = "fast"
    /\ dstDirs' = dstDirs \cup {d \in srcDirs : IsUnder(d, <<Head(month_folders)>>)}
    /\ errors' = TRUE
    /\ pc' = "sync-crashed"
    /\ UNCHANGED <<srcFs, srcDirs, dstFs, dst0, dstDirs0, dstOrig, month_folders, mode, stodo,
                   cf, phase, copied, skipped, total_copied, total_skipped, report, srun,
                   retried, orgVars, cls>>

\* a fast path without the count of lines 67-69: it returns copied as it stands
MonthEndNoCount ==
    /\ pc = "sync-files"
    /\ stodo = {}
    /\ ~errors
    /\ LET m == <<Head(month_folders)>>
           dd == IF mode = "fast" THEN dstDirs \cup {d \in srcDirs : IsUnder(d, m)} ELSE dstDirs
       IN  /\ dstDirs' = dd
           /\ total_copied' = total_copied + copied
           /\ total_skipped' = total_skipped + skipped
           /\ report' = Put(report, m[1], [copied |-> copied, skipped |-> skipped, mode |-> mode])
    /\ month_folders' = Tail(month_folders)
    /\ pc' = "sync-months"
    /\ UNCHANGED <<errors, srcFs, srcDirs, dstFs, dst0, dstDirs0, dstOrig, mode, stodo, cf, phase,
                   copied, skipped, srun, retried, orgVars, cls>>

\* lines 65-70 and 136-138: sync_month_folder returns (the fast path counts the
\* files now under the destination month; copytree has made the month's
\* directories) and main adds up
MonthEnd ==
    /\ pc = "sync-files"
    /\ stodo = {}
    /\ ~errors
    /\ LET m == <<Head(month_folders)>>
           dd == IF mode = "fast" THEN dstDirs \cup {d \in srcDirs : IsUnder(d, m)} ELSE dstDirs
           c == IF mode = "fast" THEN Cardinality({f \in DOMAIN dstFs : IsUnder(f, m)}) ELSE copied
       IN  /\ dstDirs' = dd
           /\ copied' = c
           /\ total_copied' = total_copied + c
           /\ total_skipped' = total_skipped + skipped
           /\ report' = Put(report, m[1], [copied |-> c, skipped |-> skipped, mode |-> mode])
    /\ month_folders' = Tail(month_folders)
    /\ pc' = "sync-months"
    /\ UNCHANGED <<errors, srcFs, srcDirs, dstFs, dst0, dstDirs0, dstOrig, mode, stodo, cf, phase, skipped,
                   srun, retried, orgVars, cls>>

\* lines 140-145: the overall summary
SyncDone ==
    /\ pc = "sync-months"
    /\ month_folders = << >>
    /\ pc' = "sync-done"
    /\ UNCHANGED <<syncVars, orgVars, cls>>

\* the operator or the system stops the first run where it is
Interrupt ==
    /\ srun = 1
    /\ pc \in {"sync-months", "sync-files", "sync-copy"}
    /\ pc' = "sync-interrupted"
    /\ UNCHANGED <<syncVars, orgVars, cls>>

\* the script is run again (line 144: "You can run this script any time")
Resume ==
    /\ pc = "sync-interrupted"
    /\ srun' = 2
    /\ pc' = "sync-start"
    /\ UNCHANGED <<errors, srcFs, srcDirs, dstFs, dstDirs, dst0, dstDirs0, dstOrig, month_folders, mode,
                   stodo, cf, phase, copied, skipped, total_copied, total_skipped, report,
                   retried, orgVars, cls>>

NextSync ==
    \/ SyncStart \/ MonthBegin \/ SkipExisting \/ BeginCopy \/ OpenDst \/ WriteChunk
    \/ FinishCopy \/ Copy2Fails \/ RetryFails \/ CopytreeRaises \/ MonthEnd \/ SyncDone
    \/ Interrupt \/ Resume

SpecSync == InitSync /\ [][NextSync]_vars

----------------------------------------------------------------------------
(* The organizer's claims *)

\* directories of the shape root/YYYY-MM/YYYY-MM-DD/[geo/]{jpeg|raw|video}
CanonicalDir(d) ==
    /\ Len(d) \in {3, 4}
    /\ Len(d[1]) = 7 /\ AllDigits(SubSeq(d[1], 1, 4)) /\ CharAt(d[1], 5) = "-"
    /\ AllDigits(SubSeq(d[1], 6, 7))
    /\ Len(d[2]) = 10 /\ SubSeq(d[2], 1, 7) = d[1] /\ CharAt(d[2], 8) = "-"
    /\ AllDigits(SubSeq(d[2], 9, 10))
    /\ SubSeq(d, 3, Len(d)) \in {<<"jpeg">>, <<"raw">>, <<"video">>, <<"geo", "jpeg">>, <<"geo", "raw">>}

AtCanonicalPath(p) == CanonicalDir(Parent(p))

InQuarantine(p) == IsUnder(p, duplicates_root)

\* the files the run that started on fs0 processes: recognized media, not
\* hidden, not in quarantine
Processed0 == {p \in DOMAIN fs0 : ~Skipped(fs0, p)}

\* C1 (idempotence): a second organize run on the tree the first run left makes
\* no safe_move call and leaves files and directories as they were
C1_Idempotent ==
    (run = 2 /\ pc # "start") => (nmoves = 0 /\ fs = fs0 /\ dirs = dirs0)

\* a second run has completed after a first run that moved files, one of them
\* into quarantine
C1_Witness ==
    /\ run = 2 /\ pc = "done" /\ prevMoves >= 2
    /\ \E p \in DOMAIN fs : InQuarantine(p)
    /\ \E p \in DOMAIN fs : AtCanonicalPath(p)

\* C2 (no data loss): at every point of a run, the final cleanup included, every
\* file the run started with is still somewhere under the root with its content,
\* and no file has appeared or vanished
C2_NoDataLoss ==
    pc # "start" =>
        /\ \A p \in DOMAIN fs0 : \E q \in DOMAIN fs : fs[q] = fs0[p]
        /\ Cardinality(DOMAIN fs) = Cardinality(DOMAIN fs0)

\* a run has ended that moved one file to a canonical path and one into
\* quarantine and whose cleanup removed the no-geo directory they came from
C2_Witness ==
    /\ pc = "done" /\ run = 1 /\ nmoves = 2
    /\ D_nogeo \in dirs0 /\ D_nogeo \notin dirs
    /\ \E p \in DOMAIN fs : InQuarantine(p)
    /\ \E p \in DOMAIN fs : AtCanonicalPath(p)

\* C3 (duplicate invariant), as claimed: after a complete run, of the processed
\* files that share a content hash exactly one is at a canonical path and the
\* others are in quarantine, and no file recorded as first-seen is in quarantine
C3_DuplicateInvariant ==
    pc = "done" =>
        /\ \A h \in DOMAIN seen_hashes :
             LET F == {q \in DOMAIN fs : /\ file_hash(fs[q].content) = h
                                         /\ \E p \in Processed0 : fs0[p].id = fs[q].id}
             IN  Cardinality(F) >= 2 =>
                   /\ Cardinality({q \in F : AtCanonicalPath(q)}) = 1
                   /\ \A q \in F : AtCanonicalPath(q) \/ InQuarantine(q)
        /\ \A q \in DOMAIN fs : fs[q].id \in firstIds => ~InQuarantine(q)

\* stem_k + ext names of line 86
Disambiguated(name, k) == Stem(name) \o "_" \o ToString(k) \o Suffix(name)

\* C9 (later-run duplicate), as claimed: a file in its canonical directory and a
\* byte-identical copy in _inbox: after the run the first is where it was and the
\* copy is in _duplicates under its name or a disambiguated one
C9_LaterRunDuplicate ==
    pc = "done" =>
        \A x \in Processed0 : \A y \in Processed0 :
            ( /\ x # y
              /\ fs0[x].content = fs0[y].content
              /\ Parent(x) = target_dir(Name(x), fs0[x].content, fs0[x].mtime)
              /\ Parent(y) = inbox_folder )
            => /\ x \in DOMAIN fs /\ fs[x] = fs0[x]
               /\ \E q \in DOMAIN fs :
                    /\ fs[q] = fs0[y]
                    /\ Parent(q) = duplicates_root
                    /\ \/ Name(q) = Name(y)
                       \/ \E k \in 1..(MaxFiles + 1) : Name(q) = Disambiguated(Name(y), k)

\* C4 (classification determinism): the directory computed for a file is
\* YYYY-MM / YYYY-MM-DD of its capture date followed by the suffix the rule table
\* gives for its category and geo flag, and the day folder's first seven
\* characters are the month folder's name
C4_ClassificationTable ==
    pc = "classified" =>
        LET ext == Lower(Suffix(cls.name))
            dt == get_capture_datetime(cls.name, cls.content, cls.mtime)
            geo == has_gps_exif(cls.name, cls.content)
            m == cls.target[1]
            d == cls.target[2]
        IN  /\ SubSeq(cls.target, 3, Len(cls.target)) =
                 ( CASE ext \in VIDEO_EXTS -> <<"video">>
                     [] ext \in RAW_EXTS /\ geo -> <<"geo", "raw">>
                     [] ext \in RAW_EXTS /\ ~geo -> <<"raw">>
                     [] ext \notin VIDEO_EXTS \cup RAW_EXTS /\ geo -> <<"geo", "jpeg">>
                     [] OTHER -> <<"jpeg">> )
            /\ Len(m) = 7 /\ CharAt(m, 5) = "-"
            /\ AllDigits(SubSeq(m, 1, 4)) /\ ToInt(SubSeq(m, 1, 4)) = dt.year
            /\ AllDigits(SubSeq(m, 6, 7)) /\ ToInt(SubSeq(m, 6, 7)) = dt.month
            /\ Len(d) = 10 /\ SubSeq(d, 1, 7) = m /\ CharAt(d, 8) = "-"
            /\ AllDigits(SubSeq(d, 9, 10)) /\ ToInt(SubSeq(d, 9, 10)) = dt.day

\* a video whose bytes hold a GPS block has been classified under video, and
\* not under geo
C4_Witness ==
    /\ pc = "classified"
    /\ Lower(Suffix(cls.name)) \in VIDEO_EXTS
    /\ cls.content.dec /\ cls.content.gps
    /\ cls.target = <<"2024-11", "2024-11-09", "video">>

\* C6 (collision-safe placement): a safe_move lands the file on a path that was
\* unused, the target itself if unused and else stem_k + ext for the smallest
\* k >= 1 whose name is unused, with its content; every other file stays as it
\* was, so as many files as before are on disk
C6_CollisionSafe ==
    [][ nmoves' # nmoves =>
          LET src == last'.src
              dst == Child(T_dir, Name(src))
              K == Cardinality(DOMAIN fs) + Cardinality(dirs) + 1
          IN  /\ \E to \in DOMAIN fs' :
                   /\ ~Exists(fs, dirs, to)
                   /\ fs'[to] = fs[src]
                   /\ DOMAIN fs' = (DOMAIN fs \ {src}) \cup {to}
                   /\ IF ~Exists(fs, dirs, dst)
                      THEN to = dst
                      ELSE \E k \in 1..K :
                             /\ to = WithName(dst, Disambiguated(Name(dst), k))
                             /\ \A j \in 1..(k - 1) :
                                  Exists(fs, dirs, WithName(dst, Disambiguated(Name(dst), j)))
              /\ \A q \in DOMAIN fs \ {src} : q \in DOMAIN fs' /\ fs'[q] = fs[q]
              /\ Cardinality(DOMAIN fs') = Cardinality(DOMAIN fs) ]_vars

\* three files named a.jpg have been placed on t/a.jpg, which was occupied, as
\* was t/a_1.jpg (by a directory): they sit at a_2, a_3 and a_4 and the old
\* file is untouched
C6_Witness ==
    /\ pc = "place" /\ nmoves = 3
    /\ <<"t", "a_1.jpg">> \in dirs
    /\ <<"t", "a.jpg">> \in DOMAIN fs /\ fs[<<"t", "a.jpg">>].id = 0
    /\ \A k \in 2..4 : /\ <<"t", "a_" \o ToString(k) \o ".jpg">> \in DOMAIN fs
                       /\ fs[<<"t", "a_" \o ToString(k) \o ".jpg">>].id \in 1..MaxPlace

----------------------------------------------------------------------------
(* The archive sync's claims *)

\* the source files under the top-level directories named YYYY-MM
MonthFiles == {f \in DOMAIN srcFs : Len(f) >= 2 /\ <<f[1]>> \in srcDirs /\ is_month_folder(f[1])}

\* of these, the files of months the destination lacked when the run started,
\* and the files of the other months whose destination path was missing
NewMonthFiles == {f \in MonthFiles : <<f[1]>> \notin dstDirs0 /\ <<f[1]>> \notin DOMAIN dst0}

MissingFiles == {f \in MonthFiles \ NewMonthFiles : f \notin DOMAIN dst0 /\ f \notin dstDirs0}

PresentFiles == MonthFiles \ (NewMonthFiles \cup MissingFiles)

\* C5 (sync additivity): at every point of a run, on either path and through
\* the copyfile retry, every file the destination held when the run started is
\* at its path with its bytes
C5_SyncAdditive ==
    \A p \in DOMAIN dst0 : p \in DOMAIN dstFs /\ dstFs[p] = dst0[p]

\* a run has ended that copied a new month whole, copied a missing file of an
\* existing month after a copy2 failure, and passed over a destination file
\* whose bytes differ from the source's
C5_Witness ==
    /\ pc = "sync-done" /\ srun = 1 /\ retried
    /\ \E m \in DOMAIN report : report[m].mode = "fast" /\ report[m].copied >= 1
    /\ \E m \in DOMAIN report : report[m].mode = "diff" /\ report[m].copied >= 1
    /\ \E p \in DOMAIN dst0 : p \in DOMAIN srcFs /\ dst0[p] # srcFs[p] /\ dstFs[p] = dst0[p]

\* C7 (resumability), as claimed, for a destination that started as a partial
\* mirror (every file it held had the bytes of the source file of its path):
\* after an interrupted run and a second run that completed, every source file
\* under a YYYY-MM folder has a destination counterpart with the same bytes
C7_Resumable ==
    ( /\ srun = 2 /\ pc = "sync-done"
      /\ \A p \in DOMAIN dstOrig : p \in DOMAIN srcFs => dstOrig[p] = srcFs[p] )
    => \A f \in MonthFiles : f \in DOMAIN dstFs /\ dstFs[f] = srcFs[f]

\* C8 (source frame): no step of a run changes the files or directories under
\* the source root, and none removes a file or a directory of the destination
C8_SourceFrame ==
    [][ /\ srcFs' = srcFs
        /\ srcDirs' = srcDirs
        /\ DOMAIN dstFs \subseteq DOMAIN dstFs'
        /\ dstDirs \subseteq dstDirs' ]_vars

\* a run has ended that copied files of the source into the destination
C8_Witness ==
    /\ pc = "sync-done" /\ total_copied >= 2
    /\ \E f \in MonthFiles : f \notin DOMAIN dst0 /\ f \in DOMAIN dstFs /\ dstFs[f] = srcFs[f]

\* C10 (sync counters): when a run completes, total copied is the number of
\* files of new months plus the number of missing files of existing months,
\* total skipped is the number of files of existing months whose destination
\* path existed, the two add up to the files under all month folders, and every
\* month copied on the fast path reports skipped = 0 and its number of files
C10_SyncCounters ==
    pc = "sync-done" =>
        /\ total_copied = Cardinality(NewMonthFiles) + Cardinality(MissingFiles)
        /\ total_skipped = Cardinality(PresentFiles)
        /\ total_copied + total_skipped = Cardinality(MonthFiles)
        /\ \A m \in DOMAIN report :
             report[m].mode = "fast" =>
               /\ report[m].skipped = 0
               /\ report[m].copied = Cardinality({f \in MonthFiles : f[1] = m})

\* a first run has ended that copied one new month whole and one missing file
\* of an existing month and skipped one file
C10_Witness ==
    /\ pc = "sync-done" /\ srun = 1
    /\ total_copied = 2 /\ total_skipped = 1
    /\ \E m \in DOMAIN report : report[m].mode = "fast" /\ report[m].copied = 1
    /\ \E m \in DOMAIN report : report[m].mode = "diff" /\ report[m].copied = 1

\* C11 (copy fallback), as claimed: safe_copy goes on to the plain copyfile only
\* when copy2 failed in preserving the attributes, which it does after it has
\* written every byte of the file; a copy2 that fails before or while writing
\* (unreadable source, destination full) is not retried
C11_RetryOnlyOnAttributeFailure ==
    [][ (phase' = "retry" /\ phase # "retry")
          => (phase = "copy2-write" /\ Len(dstFs[cf]) = Len(srcFs[cf])) ]_vars

\* the decimal digits
DigitChars == {"0", "1", "2", "3", "4", "5", "6", "7", "8", "9"}

\* a name made of four digits, a hyphen and two digits
IsYearMonth(n) ==
    /\ Len(n) = 7
    /\ \A i \in {1, 2, 3, 4, 6, 7} : CharAt(n, i) \in DigitChars
    /\ CharAt(n, 5) = "-"

\* the sync units: the names of the top-level directories of the source root
\* that match YYYY-MM
SyncUnits == {d[1] : d \in {d \in srcDirs : Len(d) = 1 /\ IsYearMonth(d[1])}}

\* C12 (sync units and their order): whatever a run has added to the
\* destination lies under a sync unit, files at the path they have in the
\* source; when a file of month m has been added, every unit named before m has
\* been synced to its end, all its files having a destination counterpart; and
\* a run that completes has synced every unit
C12_SyncUnitsInOrder ==
    LET units == SyncUnits
        added == DOMAIN dstFs \ DOMAIN dst0
    IN  /\ \A f \in added : f \in DOMAIN srcFs /\ Len(f) >= 2 /\ f[1] \in units
        /\ \A a \in {f[1] : f \in added} :
             \A m \in units \ {a} :
               StrLess(m, a) =>
                 /\ m \in DOMAIN report
                 /\ \A g \in DOMAIN srcFs : IsUnder(g, <<m>>) => g \in DOMAIN dstFs
        /\ \A d \in dstDirs \ dstDirs0 : d \in srcDirs /\ d[1] \in units
        /\ \A i \in 1..Len(month_folders) : month_folders[i] \in units
        /\ \A i \in 1..(Len(month_folders) - 1) : StrLess(month_folders[i], month_folders[i + 1])
        /\ pc = "sync-done" => DOMAIN report = units

\* a run has ended that synced two units, the later one whole, and left alone a
\* top-level folder of another name and a YYYY-MM folder nested in it
C12_Witness ==
    /\ pc = "sync-done"
    /\ Cardinality(SyncUnits) = 2
    /\ \A m \in SyncUnits : report[m].copied >= 1
    /\ <<"misc", "2025-06", "a.jpg">> \in DOMAIN srcFs
    /\ <<"misc">> \notin dstDirs /\ <<"2025-06">> \notin dstDirs

----------------------------------------------------------------------------
(* The organizer's claims, continued *)

\* C13 (visit-once), as claimed: an iteration of the loop that hashes a file
\* (and then quarantines it, moves it or finds it in place) is never given a
\* file that an earlier iteration of the same run hashed and recorded
C13_VisitOnce ==
    [][ (pc = "walk" /\ todo # {} /\ last'.kind \in {"dup", "canon", "inplace"})
          => fs[last'.src].id \notin firstIds ]_vars

\* the files the skip rules are said to protect: those under root/_duplicates,
\* those whose name begins with a dot or with the marker "_", and those whose
\* extension is not a media extension
Protected(p) ==
    \/ IsUnder(p, <<"_duplicates">>)
    \/ SubSeq(Name(p), 1, 1) \in {".", "_"}
    \/ Lower(Suffix(Name(p))) \notin (IMAGE_EXTS \cup RAW_EXTS \cup VIDEO_EXTS)

\* C14 (skip frame), as claimed: throughout a run every protected file of the
\* start of the run is at its path, unchanged, and is not recorded in
\* seen_hashes
C14_SkipFrame ==
    pc # "start" =>
        \A p \in DOMAIN fs0 :
            Protected(p) =>
                /\ p \in DOMAIN fs /\ fs[p] = fs0[p]
                /\ \A h \in DOMAIN seen_hashes : seen_hashes[h] # p

\* C15 (fatal errors): when file_hash or safe_move fails the run is over (no
\* step of the program follows the failure), the file that was being processed
\* is at its path with its content, and every other file is where it was, the
\* files the run had placed before included
C15_FatalErrors ==
    [][ /\ pc # "failed"
        /\ pc' = "failed" =>
             /\ last'.src \in DOMAIN fs /\ last'.src \in DOMAIN fs'
             /\ \A q \in DOMAIN fs : q \in DOMAIN fs' /\ fs'[q] = fs[q]
             /\ todo' = todo ]_vars

\* a run has stopped on a failed safe_move after it had placed a file, with
\* entries of the walk left unprocessed
C15_Witness ==
    /\ pc = "failed" /\ last.kind = "move-error"
    /\ nmoves >= 1
    /\ todo \ {last.src} # {}
    /\ \E q \in DOMAIN fs : AtCanonicalPath(q) /\ q \notin DOMAIN fs0

\* the file at p is where organize puts it: in quarantine, or in the directory
\* computed from its own capture date, category and geo flag
Placed(p) ==
    \/ InQuarantine(p)
    \/ Parent(p) = target_dir(Name(p), fs[p].content, fs[p].mtime)

\* the recognized media files that are not hidden
Recognized(p) ==
    /\ SubSeq(Name(p), 1, 1) # "."
    /\ Lower(Suffix(Name(p))) \in (IMAGE_EXTS \cup RAW_EXTS \cup VIDEO_EXTS)

\* the directories the walk has still to enter: those at or beneath a pending
\* entry of its stack and, when subdirectories are listed late, those beneath
\* the current directory
Unentered ==
    {d \in dirs : \/ \E i \in 1..Len(stack) : \E e \in stack[i] : IsUnder(d, e)
                  \/ lateScan /\ d # cur /\ IsUnder(d, cur)}

\* how often the loop can still handle the file at p: not at all once it is in
\* quarantine, once more after it has been recorded, twice before
Handlings(p) ==
    IF InQuarantine(p) THEN 0 ELSE IF fs[p].id \in firstIds THEN 1 ELSE 2

RECURSIVE SumOver(_, _)
SumOver(S, n) ==
    IF S = {} THEN n
    ELSE LET x == CHOOSE x \in S : TRUE IN SumOver(S \ {x}, n + Handlings(x))

\* how far the program has come: run 1 before run 2, and in a run the set-up,
\* the walk, the cleanup, the end
Stage ==
    (IF run = 1 THEN 4 ELSE 0)
    + (IF pc = "start" THEN 3 ELSE IF pc = "walk" THEN 2 ELSE IF pc = "cleanup" THEN 1 ELSE 0)

\* a natural number that bounds what is left to do: the stage, the handlings
\* left (a move makes at most five directories and one more entry to yield, so
\* a handling weighs eight), the directories to enter and the entries to yield
Variant ==
    1000 * Stage
    + (IF pc = "walk"
       THEN 8 * SumOver(DOMAIN fs, 0) + Cardinality(Unentered) + Cardinality(todo)
            + Cardinality({p \in DOMAIN fs : Parent(p) \in Unentered})
       ELSE 0)

\* C16 (completion): a run terminates (every step of the program lowers a
\* natural-number variant, so no run goes on forever, and the program is only
\* ever at its set-up, in the walk, in the cleanup or at its end), and whenever
\* a run has ended every recognized, non-hidden media file under the root is in
\* quarantine or in its own canonical directory
C16_Completion ==
    /\ [][Variant' < Variant]_vars
    /\ [](Variant \in 0..7999 /\ pc \in {"start", "walk", "cleanup", "done"})
    /\ [](pc = "done" => \A p \in DOMAIN fs : Recognized(p) => Placed(p))

\* a run has ended that took a video and an image out of the inbox or the root
\* and put each in the directory of its own date and category
C16_Witness ==
    /\ pc = "done" /\ run = 1
    /\ \E p \in DOMAIN fs :
         /\ Lower(Suffix(Name(p))) \in VIDEO_EXTS
         /\ p \notin DOMAIN fs0 /\ ~InQuarantine(p) /\ Placed(p)
    /\ \E p \in DOMAIN fs :
         /\ Lower(Suffix(Name(p))) \in IMAGE_EXTS
         /\ p \notin DOMAIN fs0 /\ ~InQuarantine(p) /\ Placed(p)

\* the date written in an EXIF capture field "YYYY:MM:DD HH:MM:SS"; NoDate for
\* a text of another shape or a date the calendar does not have
CaptureDate(raw) ==
    LET y == ToInt(SubSeq(raw, 1, 4))
        m == ToInt(SubSeq(raw, 6, 7))
        d == ToInt(SubSeq(raw, 9, 10))
    IN  IF /\ Len(raw) = 19
           /\ \A i \in {1, 2, 3, 4, 6, 7, 9, 10, 12, 13, 15, 16, 18, 19} : CharAt(raw, i) \in DigitChars
           /\ CharAt(raw, 5) = ":" /\ CharAt(raw, 8) = ":" /\ CharAt(raw, 11) = " "
           /\ CharAt(raw, 14) = ":" /\ CharAt(raw, 17) = ":"
           /\ y >= 1 /\ m \in 1..12 /\ d \in 1..DaysIn(y, m)
        THEN [year |-> y, month |-> m, day |-> d]
        ELSE NoDate

\* the name ends, in upper or lower case, with an image extension that is not
\* the whole name
IsImageName(n) ==
    \E e \in {".jpg", ".jpeg", ".jpe", ".tif", ".tiff", ".heic", ".png"} :
        Len(n) > Len(e) /\ Lower(SubSeq(n, Len(n) - Len(e) + 1, Len(n))) = e

\* C17 (metadata fallback): for every file the resolver returns a date and a
\* boolean; the date is the embedded capture date exactly when the file is an
\* image, its metadata decodes and the capture field is present and parses, and
\* the modification date otherwise; the geo flag is false for every file that
\* is not an image or does not decode
C17_MetadataFallback ==
    pc = "classified" =>
        LET embedded == /\ IsImageName(cls.name) /\ cls.content.dec
                        /\ cls.content.dto # "" /\ CaptureDate(cls.content.dto) # NoDate
        IN  /\ cls.dt # NoDate
            /\ cls.geo \in BOOLEAN
            /\ embedded => cls.dt = CaptureDate(cls.content.dto)
            /\ ~embedded => cls.dt = cls.mtime
            /\ cls.geo = (IsImageName(cls.name) /\ cls.content.dec /\ cls.content.gps)

\* an image whose capture field names a day the calendar does not have has been
\* resolved to its modification date, with the GPS block of the file read
C17_Witness ==
    /\ pc = "classified"
    /\ IsImageName(cls.name)
    /\ cls.content = C_baddate
    /\ cls.dt = cls.mtime /\ cls.geo

\* C18 (legacy cleanup): the cleanup step removes a directory named no-geo
\* exactly when no file lies anywhere beneath it (what it removes with it are
\* the directories beneath such a no-geo), and it removes or changes no file
C18_CleanupSafety ==
    [][ (pc = "cleanup" /\ pc' = "done") =>
          /\ fs' = fs
          /\ dirs' \subseteq dirs
          /\ \A d \in dirs :
               (Len(d) > 0 /\ d[Len(d)] = "no-geo") =>
                 (d \notin dirs' <=> ~ \E p \in DOMAIN fs : Len(p) > Len(d) /\ SubSeq(p, 1, Len(d)) = d)
          /\ \A d \in dirs \ dirs' :
               \E g \in dirs : /\ Len(g) > 0 /\ g[Len(g)] = "no-geo"
                               /\ Len(d) >= Len(g) /\ SubSeq(d, 1, Len(g)) = g ]_vars

\* a run has ended whose walk took the only file out of a no-geo directory and
\* whose cleanup then removed that directory
C18_Witness ==
    /\ pc = "done" /\ run = 1
    /\ D_nogeo \in dirs0 /\ D_nogeo \notin dirs
    /\ \E p \in DOMAIN fs0 : Parent(p) = D_nogeo
    /\ Cardinality(DOMAIN fs) = Cardinality(DOMAIN fs0)
    /\ Parent(D_nogeo) \in dirs

====
